---- MODULE Spec2Model ----
(***************************************************************************)
(* Model of the MCP data-analytics tool server (src/server.py) and of the  *)
(* temporary-file cleanup of its Streamlit front-end (src/app.py).         *)
(*                                                                         *)
(* Four specifications share the variables:                                *)
(*   Spec     the ten tools of server.py, one action per tool, each        *)
(*            invocation run alone against the file system;                *)
(*   SpecFmt  the pure function _format_file_size applied to byte counts;  *)
(*   SpecUI   the upload and cleanup handlers of app.py;                   *)
(*   SpecConc concurrent descargar_archivo_web invocations on one event    *)
(*            loop, interleaved at their await points.                     *)
(***************************************************************************)
EXTENDS Integers, Sequences, FiniteSets, TLC

VARIABLES
    fs,         \* the server's file system: path -> file
    prevFs,     \* the file system as the last invocation found it
    call,       \* the last tool invocation: tool name, arguments, environment inputs
    response,   \* the envelope the last invocation returned
    escaped,    \* the exception the last invocation let past the tool boundary
    requests,   \* the HTTP requests the last invocation issued, in order
    reached,    \* the library steps the last invocation reached
    sizeIn,     \* SpecFmt: the byte count handed to _format_file_size
    sizeOut,    \* SpecFmt: the string it returned
    cwd,        \* SpecUI: the front-end's working directory: name -> entry
    cwdBefore,  \* SpecUI: the directory as the last handler found it
    shown,      \* SpecUI: the messages the last handler displayed, in order
    uiLast,     \* SpecUI: the last handler run
    dl,         \* SpecConc: the download invocations in flight: their position and arguments
    dlLog       \* SpecConc: the writes the downloads made, in order

srvVars == <<fs, prevFs, call, response, escaped, requests, reached>>
fmtVars == <<sizeIn, sizeOut>>
uiVars == <<cwd, cwdBefore, shown, uiLast>>
concVars == <<dl, dlLog>>
vars == <<fs, prevFs, call, response, escaped, requests, reached, sizeIn, sizeOut,
          cwd, cwdBefore, shown, uiLast, dl, dlLog>>

(***************************************************************************)
(* Bounds of the model.                                                    *)
(***************************************************************************)
MaxSizeDigits == 5      \* byte counts have at most this many base-1024 digits

(***************************************************************************)
(* _format_file_size (server.py 478-484).                                  *)
(*                                                                         *)
(* A byte count is a sequence of base-1024 digits, most significant first. *)
(* The running value of size_bytes is a pair: ip, the digits of its        *)
(* integer part, and fp, the base-1024 digits of its fractional part.      *)
(* `size_bytes /= 1024` moves the last integer digit to the front of the   *)
(* fraction; this is exact for a Python float as long as the count is      *)
(* below 2^53.  The returned string f"{x:.1f} {unit}" is the record        *)
(* [tenths, unit]: tenths = 15 stands for the digits "1.5".                *)
(***************************************************************************)
Base == 1024

RECURSIVE IntVal(_)
IntVal(ds) ==
    IF ds = <<>> THEN 0
    ELSE IntVal(SubSeq(ds, 1, Len(ds) - 1)) * Base + ds[Len(ds)]

\* size_bytes < 1024 (line 481)
Below1024(v) == \A i \in 1..(Len(v.ip) - 1) : v.ip[i] = 0

\* size_bytes /= 1024 (line 483)
Div1024(v) ==
    IF v.ip = <<>> THEN [ip |-> <<>>, fp |-> <<0>> \o v.fp]
    ELSE [ip |-> SubSeq(v.ip, 1, Len(v.ip) - 1),
          fp |-> <<v.ip[Len(v.ip)]>> \o v.fp]

\* ten times a fraction: the carry is the integer part of the product
RECURSIVE MulTen(_)
MulTen(fp) ==
    IF fp = <<>> THEN [carry |-> 0, digits |-> <<>>]
    ELSE LET rest == MulTen(Tail(fp))
             t    == Head(fp) * 10 + rest.carry
         IN  [carry |-> t \div Base, digits |-> <<t % Base>> \o rest.digits]

\* a fraction compared with one half: -1 below, 0 equal, 1 above
CmpHalf(r) ==
    IF r = <<>> THEN -1
    ELSE IF r[1] > Base \div 2 THEN 1
    ELSE IF r[1] < Base \div 2 THEN -1
    ELSE IF \A i \in 2..Len(r) : r[i] = 0 THEN 0 ELSE 1

\* Format1fTrunc: the ".1f" conversion with the rounding left out
Format1fTrunc(v) == IntVal(v.ip) * 10 + MulTen(v.fp).carry

\* the ".1f" conversion: the nearest tenth, ties to the even tenth
Format1f(v) ==
    LET m     == MulTen(v.fp)
        floor == IntVal(v.ip) * 10 + m.carry
        c     == CmpHalf(m.digits)
    IN  floor + (IF c > 0 \/ (c = 0 /\ floor % 2 = 1) THEN 1 ELSE 0)

FormatUnits == <<"B", "KB", "MB", "GB">>

RECURSIVE FormatLoop(_, _)
FormatLoop(v, i) ==
    IF i > Len(FormatUnits) THEN [tenths |-> Format1f(v), unit |-> "TB"]
    ELSE IF Below1024(v) THEN [tenths |-> Format1f(v), unit |-> FormatUnits[i]]
    ELSE FormatLoop(Div1024(v), i + 1)

_format_file_size(size_bytes) == FormatLoop([ip |-> size_bytes, fp |-> <<>>], 1)

\* an int small enough to be one digit, as a byte count
SmallSize(n) == <<n>>

(***************************************************************************)
(* SpecFmt: byte counts drawn from digit sequences, the function applied.  *)
(***************************************************************************)
SizeDigits == {0, 1, 51, 52, 256, 512, 768, 1023}

RECURSIVE DigitSeqs(_)
DigitSeqs(n) ==
    IF n = 0 THEN {<<>>}
    ELSE LET shorter == DigitSeqs(n - 1)
         IN  shorter \cup {<<d>> \o s : d \in SizeDigits, s \in {t \in shorter : Len(t) = n - 1}}

SizeInputs == DigitSeqs(MaxSizeDigits) \ {<<>>}

NoSize == [none |-> TRUE]

(***************************************************************************)
(* Paths and the file system.                                              *)
(*                                                                         *)
(* A pathlib.Path is the record [stem, suffix].  A file is absent or a     *)
(* regular file holding a text: a sequence of bytes, one byte per          *)
(* character, BadByte being a byte that is not valid UTF-8.  Destinations  *)
(* are regular files and a write to a path never fails on its own.         *)
(***************************************************************************)
MaxText == 2            \* files hold at most this many characters

Stems == {"data", "notes"}
Suffixes == {".csv", ".CSV", ".json", ".xlsx", ".parquet", ".html", ".txt", ".pdf", ".png"}
AllPaths == [stem : Stems, suffix : Suffixes]

Path(stem, suffix) == [stem |-> stem, suffix |-> suffix]

\* str(path) and path.name: the model has no directories
PathStr(p) == p.stem \o p.suffix

\* str.lower() on a suffix
Lower(s) == IF s = ".CSV" THEN ".csv" ELSE s

\* Path.with_suffix
with_suffix(p, suffix) == [stem |-> p.stem, suffix |-> suffix]

Chars == {"a", "b"}
BadByte == "#"

RECURSIVE TextsUpTo(_)
TextsUpTo(n) ==
    IF n = 0 THEN {<<>>}
    ELSE LET shorter == TextsUpTo(n - 1)
         IN  shorter \cup {<<c>> \o t : c \in Chars, t \in {u \in shorter : Len(u) = n - 1}}

Texts == TextsUpTo(MaxText)
BinaryText == <<BadByte>>

Absent == [exists |-> FALSE]
File(text) == [exists |-> TRUE, text |-> text]

EmptyFs == [p \in AllPaths |-> Absent]

\* Path.exists
Exists(f, p) == p \in DOMAIN f /\ f[p].exists

\* WriteFileExclusive: a write that creates the file and leaves an existing one
WriteFileExclusive(f, p, text) == IF f[p].exists THEN f ELSE [f EXCEPT ![p] = File(text)]

\* Path.write_text / write_bytes / a library writer: the file now holds text
WriteFile(f, p, text) == [f EXCEPT ![p] = File(text)]

\* bytes.decode("utf-8") succeeds
Decodable(text) == \A i \in 1..Len(text) : text[i] # BadByte

Min(a, b) == IF a < b THEN a ELSE b
Max(a, b) == IF a > b THEN a ELSE b

\* s[:k] of Python: a negative k counts from the end
PySliceTo(s, k) ==
    IF k >= 0 THEN SubSeq(s, 1, Min(k, Len(s)))
    ELSE SubSeq(s, 1, Max(Len(s) + k, 0))

(***************************************************************************)
(* Outcomes of a handler body, and the tool boundary.                      *)
(*                                                                         *)
(* The body of a handler either returns (exc = NoExc) with the data and    *)
(* message it passes to ResponseFormatter.success, or raises an exception  *)
(* of class exc whose str() is msg.  Either way it leaves a file system,   *)
(* the HTTP requests it issued and the library steps it reached.           *)
(***************************************************************************)
NoExc == "none"

Return(data, message, f, reqs, steps) ==
    [exc |-> NoExc, msg |-> <<>>, data |-> data, message |-> message,
     fs |-> f, requests |-> reqs, reached |-> steps]

Raise(exc, msg, f, reqs, steps) ==
    [exc |-> exc, msg |-> msg, data |-> <<>>, message |-> <<>>,
     fs |-> f, requests |-> reqs, reached |-> steps]

\* the classes the handlers raise; all derive from Exception
ExceptionClasses ==
    {"FileNotFoundError", "FileExistsError", "ValueError", "KeyError", "IndexError",
     "TypeError", "LookupError", "UnicodeDecodeError", "ParserError", "PdfReadError",
     "LibraryError", "HTTPStatusError", "TimeoutException", "JSONDecodeError"}

\* datetime.now().isoformat()
Now == "iso-8601"

\* ResponseFormatter.success (lines 56-64)
success(data, message) ==
    [success |-> TRUE, data |-> data, message |-> message, timestamp |-> Now]

\* ResponseFormatter.error (lines 66-74); details keeps its default ""
error(err) ==
    [success |-> FALSE, error |-> err, details |-> "", timestamp |-> Now]

NoResponse == [none |-> TRUE]

\* CatchOnlyValueError: an except clause that names ValueError alone
CatchOnlyValueError(exc) == exc = "ValueError"

\* `except Exception`: the clause of every handler
CatchesException(exc) == exc \in ExceptionClasses

\* try: <body> except Exception as e: return ResponseFormatter.error(str(e))
TryExcept(out) ==
    IF out.exc = NoExc
    THEN [response |-> success(out.data, out.message), escaped |-> NoExc]
    ELSE IF CatchesException(out.exc)
    THEN [response |-> error(out.msg), escaped |-> NoExc]
    ELSE [response |-> NoResponse, escaped |-> out.exc]

\* NotFoundMessageBare: a message that leaves the path out
NotFoundMessageBare(p) == <<"El archivo no existe">>

\* FileHandler.validate_file_exists (lines 26-30): the message it raises with
NotFoundMessage(p) == <<"El archivo ", PathStr(p), " no existe">>

(***************************************************************************)
(* analizar_archivo (lines 77-107).                                        *)
(***************************************************************************)
PreviewSuffixes == {".txt", ".md", ".py", ".json"}
PreviewMaxSize == 10000
PreviewLength == 1000

analizar_archivo_body(archivo, f) ==
    IF ~Exists(f, archivo)
    THEN Raise("FileNotFoundError", NotFoundMessage(archivo), f, <<>>, {})
    ELSE
        LET text == f[archivo].text
            size == Len(text)
            base == [nombre |-> PathStr(archivo),
                     extension |-> archivo.suffix,
                     tamano_bytes |-> size,
                     tamano_legible |-> _format_file_size(SmallSize(size)),
                     fecha_creacion |-> Now,
                     fecha_modificacion |-> Now,
                     es_archivo |-> TRUE,
                     es_directorio |-> FALSE]
            preview == IF Decodable(text)
                       THEN [contenido_preview |-> PySliceTo(text, PreviewLength)]
                       ELSE [contenido_preview |-> <<"No se pudo leer el contenido">>]
            data == IF Lower(archivo.suffix) \in PreviewSuffixes /\ size < PreviewMaxSize
                    THEN base @@ preview
                    ELSE base
        IN  Return(data, <<"Archivo ", PathStr(archivo), " analizado exitosamente">>,
                   f, <<>>, {})

(***************************************************************************)
(* crear_archivo (lines 109-126).  An unknown encoding makes write_text    *)
(* raise LookupError; whether the file was already opened (and so created  *)
(* empty) by then depends on the Python version: truncated says which.     *)
(***************************************************************************)
Encodings == {"utf-8", "bogus"}

crear_archivo_body(ruta, contenido, encoding, truncated, f) ==
    IF encoding # "utf-8"
    THEN Raise("LookupError", <<"unknown encoding: ", encoding>>,
               IF truncated THEN WriteFile(f, ruta, <<>>) ELSE f, <<>>, {})
    ELSE Return([ruta |-> PathStr(ruta), tamano |-> Len(contenido)],
                <<"Archivo ", PathStr(ruta), " creado exitosamente">>,
                WriteFile(f, ruta, contenido), <<>>, {})

(***************************************************************************)
(* leer_documento (lines 129-158).  pdf: what PyPDF2 makes of the file,    *)
(* [ok |-> FALSE] or [ok |-> TRUE, text |-> the extracted text].           *)
(***************************************************************************)
TextSuffixes == {".txt", ".md", ".csv", ".json", ".py"}

UnsupportedMessage(suffix) == <<"Formato no soportado: ", suffix>>

\* leer_documento_unflagged: a report of the content and its length alone
leer_documento_unflagged(ruta, contenido, limite_caracteres, f) ==
    Return([contenido |-> PySliceTo(contenido, limite_caracteres),
            longitud_total |-> Len(contenido)],
           <<"Documento ", PathStr(ruta), " leído exitosamente">>, f, <<>>, {})

\* the part of leer_documento after the content is read (lines 143-154)
leer_documento_result(ruta, contenido, limite_caracteres, f) ==
    LET contenido_limitado == PySliceTo(contenido, limite_caracteres)
        fue_truncado == Len(contenido) > limite_caracteres
    IN  Return([contenido |-> contenido_limitado,
                longitud_total |-> Len(contenido),
                longitud_retornada |-> Len(contenido_limitado),
                fue_truncado |-> fue_truncado],
               <<"Documento ", PathStr(ruta), " leído exitosamente">>, f, <<>>, {})

leer_documento_body(ruta, limite_caracteres, pdf, f) ==
    IF ~Exists(f, ruta)
    THEN Raise("FileNotFoundError", NotFoundMessage(ruta), f, <<>>, {})
    ELSE IF Lower(ruta.suffix) = ".pdf"
    THEN IF pdf.ok
         THEN leer_documento_result(ruta, pdf.text, limite_caracteres, f)
         ELSE Raise("PdfReadError", <<"EOF marker not found">>, f, <<>>, {})
    ELSE IF Lower(ruta.suffix) \in TextSuffixes
    THEN IF Decodable(f[ruta].text)
         THEN leer_documento_result(ruta, f[ruta].text, limite_caracteres, f)
         ELSE Raise("UnicodeDecodeError", <<"'utf-8' codec can't decode byte">>, f, <<>>, {})
    ELSE Raise("ValueError", UnsupportedMessage(ruta.suffix), f, <<>>, {})

(***************************************************************************)
(* Data frames.  What pandas makes of a file's bytes is an input of the    *)
(* invocation (parsed): either a parse failure or a frame, a sequence of   *)
(* distinct column names and a sequence of rows of cells.                  *)
(***************************************************************************)
MaxRows == 2            \* frames have at most this many rows

NullCell == "NaN"
Cells == {"1", NullCell}
ColumnLists == {<<"x">>, <<"x", "y">>}

RECURSIVE RowSeqs(_, _)
RowSeqs(width, n) ==
    IF n = 0 THEN {<<>>}
    ELSE LET shorter == RowSeqs(width, n - 1)
         IN  shorter \cup {<<r>> \o rs : r \in [1..width -> Cells],
                                        rs \in {s \in shorter : Len(s) = n - 1}}

DataFrames(maxRows) ==
    UNION {{[cols |-> cols, rows |-> rows] : rows \in RowSeqs(Len(cols), maxRows)} :
           cols \in ColumnLists}

ParseFailure == [ok |-> FALSE]
Parsed(df) == [ok |-> TRUE, df |-> df]
ParseOutcomes(maxRows) == {ParseFailure} \cup {Parsed(df) : df \in DataFrames(maxRows)}

Range(s) == {s[i] : i \in 1..Len(s)}

DataSuffixes == {".csv", ".xlsx", ".xls", ".json"}

\* FileHandler.read_dataframe (lines 32-44): the frame, or what it raises
read_dataframe(path, parsed, f) ==
    IF ~Exists(f, path)
    THEN [exc |-> "FileNotFoundError", msg |-> NotFoundMessage(path)]
    ELSE IF Lower(path.suffix) \in DataSuffixes
    THEN IF parsed.ok
         THEN [exc |-> NoExc, df |-> parsed.df]
         ELSE [exc |-> "ParserError", msg |-> <<"Error tokenizing data">>]
    ELSE [exc |-> "ValueError", msg |-> UnsupportedMessage(path.suffix)]

\* FileHandler.validate_columns (lines 46-51): the columns it reports missing
missing_cols(df, columns) == SelectSeq(columns, LAMBDA col : col \notin Range(df.cols))

MissingColumnsMessage(missing) == <<"Columnas no encontradas: ", missing>>

(***************************************************************************)
(* analizar_datos (lines 161-203).                                         *)
(***************************************************************************)
SampleRows == 5

ColumnIndex(df, c) == CHOOSE i \in 1..Len(df.cols) : df.cols[i] = c

\* NotNullCount: df.count(), the cells of a column that are not null
NotNullCount(df, c) ==
    Cardinality({i \in 1..Len(df.rows) : df.rows[i][ColumnIndex(df, c)] # NullCell})

\* df.isnull().sum() for one column
NullCount(df, c) ==
    Cardinality({i \in 1..Len(df.rows) : df.rows[i][ColumnIndex(df, c)] = NullCell})

analizar_datos_body(ruta_archivo, incluir_muestra, parsed, f) ==
    LET rd == read_dataframe(ruta_archivo, parsed, f)
    IN  IF rd.exc # NoExc THEN Raise(rd.exc, rd.msg, f, <<>>, {})
        ELSE
        LET df == rd.df
            info_basica == [filas |-> Len(df.rows),
                            columnas |-> Len(df.cols),
                            lista_columnas |-> df.cols,
                            tipos_datos |-> [c \in Range(df.cols) |-> "dtype"]]
            estadisticas == IF Len(df.cols) = 0 \/ Len(df.rows) = 0
                            THEN <<>>
                            ELSE [c \in Range(df.cols) |-> "describe"]
            valores_faltantes == [c \in Range(df.cols) |-> NullCount(df, c)]
            muestra == IF incluir_muestra
                       THEN [primeras_5_filas |-> SubSeq(df.rows, 1, Min(SampleRows, Len(df.rows))),
                             ultimas_5_filas |-> SubSeq(df.rows, Max(1, Len(df.rows) - SampleRows + 1),
                                                        Len(df.rows))]
                       ELSE <<>>
        IN  Return([info_basica |-> info_basica,
                    estadisticas_numericas |-> estadisticas,
                    valores_faltantes |-> valores_faltantes,
                    muestra_datos |-> muestra],
                   <<"Análisis de ", PathStr(ruta_archivo), " completado">>, f, <<>>, {})

(***************************************************************************)
(* tabla_dinamica_avanzada (lines 205-266).  An argument of type           *)
(* Union[str, List[str]] is [str |-> s] or [list |-> <<...>>].  pivotOk:   *)
(* pandas' pivot_table did not raise.                                      *)
(***************************************************************************)
Str(s) == [str |-> s]
List(l) == [list |-> l]

\* if isinstance(x, str): x = [x]
AsList(x) == IF "str" \in DOMAIN x THEN <<x.str>> ELSE x.list

funciones_validas == <<"mean", "sum", "min", "max", "count", "std", "var", "median">>

\* FirstInvalid: a check that looks at the first function name only
FirstInvalid(aggfunc) ==
    IF aggfunc # <<>> /\ aggfunc[1] \notin Range(funciones_validas) THEN <<aggfunc[1]>> ELSE <<>>

\* [f for f in aggfunc if f not in funciones_validas]
funciones_invalidas(aggfunc) ==
    SelectSeq(aggfunc, LAMBDA fn : fn \notin Range(funciones_validas))

tabla_dinamica_avanzada_body(ruta_archivo, index_cols, columns_cols, values_col, aggfunc, fill_value, parsed, pivotOk, f) ==
    LET rd == read_dataframe(ruta_archivo, parsed, f)
        index == AsList(index_cols)
        columns == AsList(columns_cols)
        funcs == AsList(aggfunc)
        todas_columnas == index \o columns \o <<values_col>>
    IN  IF rd.exc # NoExc THEN Raise(rd.exc, rd.msg, f, <<>>, {})
        ELSE IF missing_cols(rd.df, todas_columnas) # <<>>
        THEN Raise("ValueError", MissingColumnsMessage(missing_cols(rd.df, todas_columnas)),
                   f, <<>>, {})
        ELSE IF funciones_invalidas(funcs) # <<>>
        THEN Raise("ValueError",
                   <<"Funciones no válidas: ", funciones_invalidas(funcs), ". Use: ",
                     funciones_validas>>, f, <<>>, {})
        ELSE IF ~pivotOk
        THEN Raise("LibraryError", <<"pivot_table">>, f, <<>>, {"pivot_table"})
        ELSE Return([tabla_dinamica |-> IF Len(funcs) = 1 THEN <<"pivot">>
                                        ELSE [fn \in Range(funcs) |-> <<"pivot">>],
                     metadata |-> [index_columnas |-> index,
                                   columnas_pivote |-> columns,
                                   columna_valores |-> values_col,
                                   funciones_agregacion |-> funcs,
                                   dimensiones |-> <<"shape">>]],
                    <<"Tabla dinámica creada exitosamente">>, f, <<>>, {"pivot_table"})

(***************************************************************************)
(* crear_visualizacion (lines 269-307) and _create_plotly_figure           *)
(* (lines 492-510).  plotOk: the plotly call and update_layout did not     *)
(* raise.  A configuration is a record that may lack the key columnas.     *)
(***************************************************************************)
tipos_soportados == <<"bar", "line", "scatter", "pie", "histogram", "box">>

\* the columns a chart kind indexes: columnas[0], or columnas[0] and columnas[1]
\* (box indexes columnas[1] only when there is one)
ColumnsIndexed(tipo) == IF tipo \in {"histogram", "box"} THEN 1 ELSE 2

\* FigureOrBar: a version whose final branch draws a bar chart
FigureOrBar(tipo, config, plotOk) ==
    IF Len(config.columnas) < 2
    THEN [exc |-> "IndexError", msg |-> <<"list index out of range">>]
    ELSE IF ~plotOk THEN [exc |-> "LibraryError", msg |-> <<"plotly">>]
    ELSE [exc |-> NoExc, fig |-> "bar"]

_create_plotly_figure(tipo, config, plotOk) ==
    IF tipo \in Range(tipos_soportados)
    THEN IF Len(config.columnas) < ColumnsIndexed(tipo)
         THEN [exc |-> "IndexError", msg |-> <<"list index out of range">>]
         ELSE IF ~plotOk THEN [exc |-> "LibraryError", msg |-> <<"plotly">>]
         ELSE [exc |-> NoExc, fig |-> tipo]
    ELSE [exc |-> "ValueError",
          msg |-> <<"Tipo '", tipo, "' no soportado. Use: ", tipos_soportados>>]

\* the bytes fig.write_html leaves in the output file
HtmlText(fig) == <<"a">>

crear_visualizacion_body(ruta_archivo, tipo_grafico, configuracion, parsed, plotOk, f) ==
    LET rd == read_dataframe(ruta_archivo, parsed, f)
    IN  IF rd.exc # NoExc THEN Raise(rd.exc, rd.msg, f, <<>>, {})
        ELSE IF "columnas" \notin DOMAIN configuracion
        THEN Raise("ValueError", <<"Debe especificar 'columnas' en la configuración">>,
                   f, <<>>, {})
        ELSE IF missing_cols(rd.df, configuracion.columnas) # <<>>
        THEN Raise("ValueError",
                   MissingColumnsMessage(missing_cols(rd.df, configuracion.columnas)),
                   f, <<>>, {})
        ELSE
        LET made == _create_plotly_figure(tipo_grafico, configuracion, plotOk)
            ruta_salida == with_suffix(ruta_archivo, ".html")
        IN  IF made.exc # NoExc THEN Raise(made.exc, made.msg, f, <<>>, {"figure"})
            ELSE Return([archivo_salida |-> PathStr(ruta_salida),
                         tipo_grafico |-> tipo_grafico,
                         columnas_utilizadas |-> configuracion.columnas],
                        <<"Visualización ", tipo_grafico, " creada exitosamente">>,
                        WriteFile(f, ruta_salida, HtmlText(made.fig)), <<>>,
                        {"figure", "write_html"})

(***************************************************************************)
(* HTTP.  What the upstream does with a request is an input of the         *)
(* invocation: no answer within the timeout, or a response with a status   *)
(* and a body.  httpx neither retries nor follows redirects by default.    *)
(***************************************************************************)
Timeout == [kind |-> "timeout"]
HttpResponse(status, body) == [kind |-> "response", status |-> status, body |-> body]

\* Response.raise_for_status passes
IsSuccess(status) == 200 =< status /\ status < 300

Get(url, params, timeout) == [method |-> "GET", url |-> url, params |-> params, timeout |-> timeout]

HttpFailure(upstream) ==
    IF upstream.kind = "timeout"
    THEN [exc |-> "TimeoutException", msg |-> <<"timed out">>]
    ELSE IF ~IsSuccess(upstream.status)
    THEN [exc |-> "HTTPStatusError", msg |-> <<"status ", upstream.status>>]
    ELSE [exc |-> NoExc]

(***************************************************************************)
(* buscar_repositorios_github (lines 310-356).  A JSON body is             *)
(* [json |-> FALSE] or [json |-> TRUE, doc |-> d], d a record that may     *)
(* lack keys.                                                              *)
(***************************************************************************)
GithubTimeout == 30
GithubUrl == "https://api.github.com/search/repositories"
ApiMaxPerPage == 100

\* Unclamped: the requested page size passed through
Unclamped(per_page) == per_page

\* min(per_page, 100) (line 325)
ClampPerPage(per_page) == Min(per_page, ApiMaxPerPage)

RepoRequiredKeys == {"full_name", "html_url", "stargazers_count", "forks_count", "updated_at"}

GetOr(rec, key, default) == IF key \in DOMAIN rec THEN rec[key] ELSE default

Repositorio(repo) ==
    [nombre_completo |-> repo.full_name,
     descripcion |-> GetOr(repo, "description", "Sin descripción"),
     url |-> repo.html_url,
     estrellas |-> repo.stargazers_count,
     forks |-> repo.forks_count,
     lenguaje |-> GetOr(repo, "language", "No especificado"),
     actualizado |-> repo.updated_at,
     temas |-> GetOr(repo, "topics", <<>>)]

buscar_repositorios_github_body(query, sort, order, per_page, upstream, f) ==
    LET params == [q |-> query, sort |-> sort, order |-> order,
                   per_page |-> ClampPerPage(per_page)]
        reqs == <<Get(GithubUrl, params, GithubTimeout)>>
        failure == HttpFailure(upstream)
    IN  IF failure.exc # NoExc THEN Raise(failure.exc, failure.msg, f, reqs, {})
        ELSE IF ~upstream.body.json
        THEN Raise("JSONDecodeError", <<"Expecting value">>, f, reqs, {})
        ELSE
        LET data_json == upstream.body.doc
            items == GetOr(data_json, "items", <<>>)
        IN  IF \E i \in 1..Len(items) : ~(RepoRequiredKeys \subseteq DOMAIN items[i])
            THEN Raise("KeyError", <<"'full_name'">>, f, reqs, {})
            ELSE IF "total_count" \notin DOMAIN data_json
            THEN Raise("KeyError", <<"'total_count'">>, f, reqs, {})
            ELSE Return([repositorios |-> [i \in 1..Len(items) |-> Repositorio(items[i])],
                         total_encontrados |-> data_json.total_count,
                         query_utilizada |-> query],
                        <<"Se encontraron ", Len(items), " repositorios">>, f, reqs, {})

(***************************************************************************)
(* extraer_contenido_web (lines 358-386).  The body of a page is what      *)
(* BeautifulSoup finds in it: the text of the whole page, the texts of the *)
(* elements the selector matches, and the title if there is one.  An       *)
(* Optional[str] is [none |-> TRUE] or [str |-> s].                        *)
(***************************************************************************)
WebTimeout == 30
WebLimit == 10000

None == [none |-> TRUE]

\* the truth value of an Optional[str]
Truthy(opt) == "str" \in DOMAIN opt /\ opt.str # ""

\* "\n".join(texts)
RECURSIVE JoinLines(_)
JoinLines(texts) ==
    IF texts = <<>> THEN <<>>
    ELSE IF Len(texts) = 1 THEN texts[1]
    ELSE texts[1] \o <<"\n">> \o JoinLines(Tail(texts))

extraer_contenido_web_body(url, selector_css, upstream, f) ==
    LET reqs == <<Get(url, <<>>, WebTimeout)>>
        failure == HttpFailure(upstream)
    IN  IF failure.exc # NoExc THEN Raise(failure.exc, failure.msg, f, reqs, {})
        ELSE
        LET soup == upstream.body
            contenido == IF Truthy(selector_css) THEN JoinLines(soup.elements) ELSE soup.text
        IN  Return([url |-> url,
                    contenido |-> PySliceTo(contenido, WebLimit),
                    longitud_total |-> Len(contenido),
                    titulo |-> GetOr(soup, "title", "Sin título"),
                    selector_usado |-> selector_css],
                   <<"Contenido web extraído exitosamente">>, f, reqs, {})

(***************************************************************************)
(* descargar_archivo_web (lines 388-420).  The body of a download is       *)
(* [content |-> bytes] with an optional content_type header.               *)
(***************************************************************************)
DownloadTimeout == 60

\* NeverRefuses: the existence check left out
NeverRefuses(f, path, sobrescribir) == FALSE

\* path.exists() and not sobrescribir (line 395)
RefusesOverwrite(f, path, sobrescribir) == Exists(f, path) /\ ~sobrescribir

descargar_archivo_web_body(url, ruta_destino, sobrescribir, upstream, f) ==
    IF RefusesOverwrite(f, ruta_destino, sobrescribir)
    THEN Raise("FileExistsError",
               <<"El archivo ", PathStr(ruta_destino),
                 " ya existe. Use sobrescribir=True para reemplazarlo">>, f, <<>>, {})
    ELSE
    LET reqs == <<Get(url, <<>>, DownloadTimeout)>>
        failure == HttpFailure(upstream)
    IN  IF failure.exc # NoExc THEN Raise(failure.exc, failure.msg, f, reqs, {})
        ELSE
        LET content == upstream.body.content
        IN  Return([url |-> url,
                    archivo_destino |-> PathStr(ruta_destino),
                    tamano_bytes |-> Len(content),
                    tamano_legible |-> _format_file_size(SmallSize(Len(content))),
                    tipo_contenido |-> GetOr(upstream.body, "content_type", "desconocido")],
                   <<"Archivo descargado exitosamente">>,
                   WriteFile(f, ruta_destino, content), reqs, {"write_bytes"})

(***************************************************************************)
(* convertir_formato_datos (lines 423-475).  written: the bytes the pandas *)
(* writer produces for the frame; writeOk: the writer did not raise.       *)
(***************************************************************************)
formatos_soportados == <<"json", "csv", "xlsx", "parquet">>

opciones_defecto ==
    [json |-> [orient |-> "records", indent |-> 2],
     csv |-> [index |-> FALSE, encoding |-> "utf-8"],
     xlsx |-> [index |-> FALSE],
     parquet |-> [index |-> FALSE]]

\* {**opciones_defecto.get(formato_salida, {}), **opciones}: the caller's keys win
opts_finales(formato_salida, opciones) ==
    (IF "none" \in DOMAIN opciones THEN <<>> ELSE opciones)
        @@ GetOr(opciones_defecto, formato_salida, <<>>)

convertir_formato_datos_body(archivo_entrada, formato_salida, opciones, parsed, writeOk, written, f) ==
    LET rd == read_dataframe(archivo_entrada, parsed, f)
        archivo_salida == with_suffix(archivo_entrada, "." \o formato_salida)
    IN  IF rd.exc # NoExc THEN Raise(rd.exc, rd.msg, f, <<>>, {})
        ELSE IF formato_salida = ""
        THEN Raise("ValueError", <<"Invalid suffix '.'">>, f, <<>>, {})
        ELSE IF formato_salida \notin Range(formatos_soportados)
        THEN Raise("ValueError",
                   <<"Formato '", formato_salida, "' no soportado. Use: ", formatos_soportados>>,
                   f, <<>>, {})
        ELSE IF ~writeOk
        THEN Raise("LibraryError", <<"writer">>, f, <<>>, {"writer"})
        ELSE Return([archivo_entrada |-> PathStr(archivo_entrada),
                     archivo_salida |-> PathStr(archivo_salida),
                     formato_origen |-> archivo_entrada.suffix,
                     formato_destino |-> "." \o formato_salida,
                     filas_procesadas |-> Len(rd.df.rows)],
                    <<"Conversión a ", formato_salida, " completada">>,
                    WriteFile(f, archivo_salida, written), <<>>, {"writer"})

(***************************************************************************)
(* Spec: the tool server.  One action per registered tool; an action is    *)
(* one whole invocation, from the arguments to the returned envelope.      *)
(***************************************************************************)
ArgPaths ==
    {Path("data", ".csv"), Path("data", ".CSV"), Path("data", ".json"),
     Path("notes", ".txt"), Path("notes", ".pdf"), Path("data", ".png")}

NoCall == [tool |-> "none"]

\* the server takes one invocation at a time: a handler runs from the idle
\* state and leaves its envelope for the runtime to collect
Idle == call = NoCall

Invoke(tool, args, out) ==
    /\ call' = [tool |-> tool, args |-> args]
    /\ prevFs' = fs
    /\ fs' = out.fs
    /\ response' = TryExcept(out).response
    /\ escaped' = TryExcept(out).escaped
    /\ requests' = out.requests
    /\ reached' = out.reached
    /\ UNCHANGED <<fmtVars, uiVars, concVars>>

AnalizarArchivo ==
    /\ Idle
    /\ \E archivo \in ArgPaths :
           Invoke("analizar_archivo", [archivo |-> archivo],
                  analizar_archivo_body(archivo, fs))

WritePaths == {Path("notes", ".txt")}
WriteTexts == {<<>>, <<"b", "a">>}

CrearArchivo ==
    /\ Idle
    /\ \E ruta \in WritePaths, contenido \in WriteTexts, encoding \in Encodings :
           \E truncated \in IF encoding = "utf-8" THEN {FALSE} ELSE BOOLEAN :
               Invoke("crear_archivo",
                      [ruta |-> ruta, contenido |-> contenido, encoding |-> encoding,
                       truncated |-> truncated],
                      crear_archivo_body(ruta, contenido, encoding, truncated, fs))

Limits == (-1)..(MaxText + 1)

LeerDocumento ==
    /\ Idle
    /\ \E ruta \in ArgPaths, limite_caracteres \in Limits :
           \E pdf \in IF Lower(ruta.suffix) = ".pdf"
                      THEN {[ok |-> FALSE]} \cup {[ok |-> TRUE, text |-> t] : t \in WriteTexts}
                      ELSE {[ok |-> FALSE]} :
               Invoke("leer_documento",
                      [ruta |-> ruta, limite_caracteres |-> limite_caracteres, pdf |-> pdf],
                      leer_documento_body(ruta, limite_caracteres, pdf, fs))

\* the parses worth offering for a path: a frame only where pandas is reached
ParsesFor(path, maxRows) ==
    IF Exists(fs, path) /\ Lower(path.suffix) \in DataSuffixes
    THEN ParseOutcomes(maxRows)
    ELSE {ParseFailure}

AnalizarDatos ==
    /\ Idle
    /\ \E ruta_archivo \in ArgPaths, incluir_muestra \in BOOLEAN :
           \E parsed \in ParsesFor(ruta_archivo, MaxRows) :
               Invoke("analizar_datos",
                      [ruta_archivo |-> ruta_archivo, incluir_muestra |-> incluir_muestra,
                       parsed |-> parsed],
                      analizar_datos_body(ruta_archivo, incluir_muestra, parsed, fs))

ColumnArgs == {Str("x"), List(<<"x">>), List(<<"y", "z">>)}
AggfuncArgs ==
    {Str("mean"), Str("avg"), List(<<"sum", "count">>), List(<<"sum", "avg">>),
     List(<<"avg", "sum">>), List(<<>>)}

TablaDinamicaAvanzada ==
    /\ Idle
    /\ \E ruta_archivo \in ArgPaths, index_cols \in ColumnArgs, values_col \in {"x", "y"},
          aggfunc \in AggfuncArgs, pivotOk \in BOOLEAN :
           \E parsed \in ParsesFor(ruta_archivo, 0) :
               Invoke("tabla_dinamica_avanzada",
                      [ruta_archivo |-> ruta_archivo, index_cols |-> index_cols,
                       columns_cols |-> Str("x"), values_col |-> values_col,
                       aggfunc |-> aggfunc, fill_value |-> None,
                       parsed |-> parsed, pivotOk |-> pivotOk],
                      tabla_dinamica_avanzada_body(ruta_archivo, index_cols, Str("x"), values_col,
                                                   aggfunc, None, parsed, pivotOk, fs))

ChartKinds == Range(tipos_soportados) \cup {"area", "Bar"}
Configurations ==
    {[columnas |-> <<"x", "y">>], [columnas |-> <<"x">>], [columnas |-> <<>>],
     [columnas |-> <<"x", "z">>], [titulo |-> "t"]}

CrearVisualizacion ==
    /\ Idle
    /\ \E ruta_archivo \in ArgPaths, tipo_grafico \in ChartKinds,
          configuracion \in Configurations, plotOk \in BOOLEAN :
           \E parsed \in ParsesFor(ruta_archivo, 0) :
               Invoke("crear_visualizacion",
                      [ruta_archivo |-> ruta_archivo, tipo_grafico |-> tipo_grafico,
                       configuracion |-> configuracion, parsed |-> parsed, plotOk |-> plotOk],
                      crear_visualizacion_body(ruta_archivo, tipo_grafico, configuracion,
                                               parsed, plotOk, fs))

Statuses == {200, 301, 404}
FailedUpstreams == {Timeout} \cup {HttpResponse(s, <<>>) : s \in {s \in Statuses : ~IsSuccess(s)}}

FullRepo ==
    [full_name |-> "o/r", description |-> "d", html_url |-> "u", stargazers_count |-> 1,
     forks_count |-> 0, language |-> "py", updated_at |-> "t", topics |-> <<"x">>]
BareRepo ==
    [full_name |-> "o/r", html_url |-> "u", stargazers_count |-> 1,
     forks_count |-> 0, updated_at |-> "t"]
BrokenRepo == [html_url |-> "u"]

GithubBodies ==
    {[json |-> FALSE]} \cup
    {[json |-> TRUE, doc |-> d] :
        d \in {[items |-> <<>>, total_count |-> 0],
               [items |-> <<FullRepo, BareRepo>>, total_count |-> 2],
               [total_count |-> 5],
               [items |-> <<FullRepo>>],
               [items |-> <<FullRepo, BrokenRepo>>, total_count |-> 2]}}

PerPages == {-1, 0, 1, 10, ApiMaxPerPage - 1, ApiMaxPerPage, ApiMaxPerPage + 1, 1000}

BuscarRepositoriosGithub ==
    /\ Idle
    /\ \E per_page \in PerPages,
          upstream \in FailedUpstreams \cup {HttpResponse(200, b) : b \in GithubBodies} :
           Invoke("buscar_repositorios_github",
                  [query |-> "q", sort |-> "stars", order |-> "desc", per_page |-> per_page,
                   upstream |-> upstream],
                  buscar_repositorios_github_body("q", "stars", "desc", per_page, upstream, fs))

TextOfLen(n) == [i \in 1..n |-> "a"]

PageLengths == {0, 2, WebLimit, WebLimit + 1}
PageElements == {<<>>, << <<"a">>, <<"b">> >>, <<TextOfLen(WebLimit), <<"b">> >>}
Pages ==
    {[text |-> TextOfLen(n), elements |-> es] : n \in PageLengths, es \in PageElements}
    \cup {[text |-> <<"a">>, elements |-> <<>>, title |-> "T"]}
Selectors == {None, Str(""), Str("p")}

ExtraerContenidoWeb ==
    /\ Idle
    /\ \E selector_css \in Selectors,
          upstream \in FailedUpstreams \cup {HttpResponse(200, p) : p \in Pages} :
           Invoke("extraer_contenido_web",
                  [url |-> "http://h/p", selector_css |-> selector_css, upstream |-> upstream],
                  extraer_contenido_web_body("http://h/p", selector_css, upstream, fs))

DownloadPaths == {Path("data", ".csv")}
Downloads ==
    {[content |-> <<"b">>, content_type |-> "text/plain"], [content |-> BinaryText],
     [content |-> <<>>]}

DescargarArchivoWeb ==
    /\ Idle
    /\ \E ruta_destino \in DownloadPaths, sobrescribir \in BOOLEAN,
          upstream \in FailedUpstreams \cup {HttpResponse(200, d) : d \in Downloads} :
           Invoke("descargar_archivo_web",
                  [url |-> "http://h/f", ruta_destino |-> ruta_destino,
                   sobrescribir |-> sobrescribir, upstream |-> upstream],
                  descargar_archivo_web_body("http://h/f", ruta_destino, sobrescribir,
                                             upstream, fs))

OutputFormats == Range(formatos_soportados) \cup {"xml", ""}
WrittenTexts == {<<"a", "b">>}

ConvertirFormatoDatos ==
    /\ Idle
    /\ \E archivo_entrada \in ArgPaths, formato_salida \in OutputFormats,
          opciones \in {None, [index |-> TRUE]}, writeOk \in BOOLEAN, written \in WrittenTexts :
           \E parsed \in ParsesFor(archivo_entrada, 0) :
               Invoke("convertir_formato_datos",
                      [archivo_entrada |-> archivo_entrada, formato_salida |-> formato_salida,
                       opciones |-> opciones, parsed |-> parsed, writeOk |-> writeOk,
                       written |-> written],
                      convertir_formato_datos_body(archivo_entrada, formato_salida, opciones,
                                                   parsed, writeOk, written, fs))

\* the file systems the server may start on
InitialFileSystems ==
    {[EmptyFs EXCEPT ![Path("data", ".csv")] = csv,
                     ![Path("notes", ".txt")] = txt,
                     ![Path("notes", ".pdf")] = File(<<"a">>),
                     ![Path("data", ".png")] = File(BinaryText)] :
        csv \in {Absent, File(<<"a", "b">>)},
        txt \in {Absent, File(BinaryText)} \cup {File(t) : t \in Texts}}

Init ==
    /\ fs \in InitialFileSystems
    /\ prevFs = fs
    /\ call = NoCall
    /\ response = NoResponse
    /\ escaped = NoExc
    /\ requests = <<>>
    /\ reached = {}
    /\ sizeIn = <<0>>
    /\ sizeOut = NoSize
    /\ cwd = <<>>
    /\ cwdBefore = cwd
    /\ shown = <<>>
    /\ uiLast = "start"
    /\ dl = <<>>
    /\ dlLog = <<>>

\* the agent runtime collects the envelope; the server is idle again
Respond ==
    /\ call # NoCall
    /\ call' = NoCall
    /\ prevFs' = fs
    /\ response' = NoResponse
    /\ escaped' = NoExc
    /\ requests' = <<>>
    /\ reached' = {}
    /\ UNCHANGED <<fs, fmtVars, uiVars, concVars>>

Next ==
    \/ Respond
    \/ AnalizarArchivo
    \/ CrearArchivo
    \/ LeerDocumento
    \/ AnalizarDatos
    \/ TablaDinamicaAvanzada
    \/ CrearVisualizacion
    \/ BuscarRepositoriosGithub
    \/ ExtraerContenidoWeb
    \/ DescargarArchivoWeb
    \/ ConvertirFormatoDatos

Spec == Init /\ [][Next]_vars

(***************************************************************************)
(* SpecFmt: _format_file_size applied to byte counts drawn at the start.   *)
(***************************************************************************)
InitFmt ==
    /\ fs = EmptyFs
    /\ prevFs = fs
    /\ call = NoCall
    /\ response = NoResponse
    /\ escaped = NoExc
    /\ requests = <<>>
    /\ reached = {}
    /\ sizeIn \in SizeInputs
    /\ sizeOut = NoSize
    /\ cwd = <<>>
    /\ cwdBefore = cwd
    /\ shown = <<>>
    /\ uiLast = "start"
    /\ dl = <<>>
    /\ dlLog = <<>>

FormatFileSize ==
    /\ sizeOut = NoSize
    /\ sizeOut' = _format_file_size(sizeIn)
    /\ UNCHANGED <<sizeIn, srvVars, uiVars, concVars>>

NextFmt == FormatFileSize

SpecFmt == InitFmt /\ [][NextFmt]_vars

(***************************************************************************)
(* SpecUI: the working directory of the front-end (app.py).  A file name   *)
(* is a sequence of characters.  An entry of the directory is absent, or   *)
(* present and either removable or not (os.remove raises on it: a          *)
(* directory, a file held open on Windows, a permission refused).          *)
(***************************************************************************)
TempPrefix == <<"t", "e", "m", "p", "_">>

\* str.startswith
startswith(name, prefix) ==
    Len(name) >= Len(prefix) /\ SubSeq(name, 1, Len(prefix)) = prefix

UploadNames == {<<"a">>, <<"b">>}
OtherNames == {<<"t", "e", "m", "p">>, <<"x">> \o TempPrefix \o <<"a">>,
               <<"T", "e", "m", "p", "_", "a">>}
Names == {TempPrefix \o n : n \in UploadNames} \cup {TempPrefix} \cup OtherNames

NoEntry == [exists |-> FALSE]
Entry(removable) == [exists |-> TRUE, removable |-> removable]
Entries == {NoEntry, Entry(TRUE), Entry(FALSE)}

\* os.listdir('.') in one of the orders the operating system may give
Listings(dir) ==
    LET present == {n \in Names : dir[n].exists}
    IN  {l \in [1..Cardinality(present) -> present] :
            \A i, j \in 1..Cardinality(present) : i # j => l[i] # l[j]}

\* CleanupAborting: the loop inside one try, so the first failure ends it
RECURSIVE CleanupAborting(_, _, _)
CleanupAborting(archivos, dir, msgs) ==
    IF archivos = <<>> THEN [dir |-> dir, msgs |-> msgs]
    ELSE IF dir[Head(archivos)].removable
    THEN CleanupAborting(Tail(archivos), [dir EXCEPT ![Head(archivos)] = NoEntry],
                         Append(msgs, [kind |-> "success", archivo |-> Head(archivos)]))
    ELSE [dir |-> dir, msgs |-> Append(msgs, [kind |-> "warning", archivo |-> Head(archivos)])]

\* for archivo in archivos_temp: try os.remove ... except ... (lines 116-121)
RECURSIVE CleanupLoop(_, _, _)
CleanupLoop(archivos, dir, msgs) ==
    IF archivos = <<>> THEN [dir |-> dir, msgs |-> msgs]
    ELSE IF dir[Head(archivos)].removable
    THEN CleanupLoop(Tail(archivos), [dir EXCEPT ![Head(archivos)] = NoEntry],
                     Append(msgs, [kind |-> "success", archivo |-> Head(archivos)]))
    ELSE CleanupLoop(Tail(archivos), dir,
                     Append(msgs, [kind |-> "warning", archivo |-> Head(archivos)]))

\* the cleanup button (lines 113-121)
Cleanup ==
    \E listing \in Listings(cwd) :
        LET archivos_temp == SelectSeq(listing, LAMBDA n : startswith(n, TempPrefix))
            done == CleanupLoop(archivos_temp, cwd, <<>>)
        IN  /\ cwd' = done.dir
            /\ cwdBefore' = cwd
            /\ shown' = done.msgs
            /\ uiLast' = "cleanup"
            /\ UNCHANGED <<srvVars, fmtVars, concVars>>

\* the file uploader (lines 84-90): the upload is saved under the prefix;
\* open(temp_path, "wb") raises on an entry that cannot be written
Upload ==
    \E name \in UploadNames :
        LET temp_path == TempPrefix \o name
        IN  /\ cwd' = IF cwd[temp_path].exists /\ ~cwd[temp_path].removable
                      THEN cwd
                      ELSE [cwd EXCEPT ![temp_path] = Entry(TRUE)]
            /\ cwdBefore' = cwd
            /\ shown' = IF cwd[temp_path].exists /\ ~cwd[temp_path].removable
                        THEN <<[kind |-> "exception", archivo |-> temp_path]>>
                        ELSE <<[kind |-> "success", archivo |-> temp_path]>>
            /\ uiLast' = "upload"
            /\ UNCHANGED <<srvVars, fmtVars, concVars>>

InitUI ==
    /\ fs = EmptyFs
    /\ prevFs = fs
    /\ call = NoCall
    /\ response = NoResponse
    /\ escaped = NoExc
    /\ requests = <<>>
    /\ reached = {}
    /\ sizeIn = <<0>>
    /\ sizeOut = NoSize
    /\ cwd \in [Names -> Entries]
    /\ cwdBefore = cwd
    /\ shown = <<>>
    /\ uiLast = "start"
    /\ dl = <<>>
    /\ dlLog = <<>>

NextUI == Cleanup \/ Upload

SpecUI == InitUI /\ [][NextUI]_vars

(***************************************************************************)
(* Properties.                                                             *)
(***************************************************************************)
SuccessShape(r) ==
    /\ DOMAIN r = {"success", "data", "message", "timestamp"}
    /\ r.success = TRUE

FailureShape(r) ==
    /\ DOMAIN r = {"success", "error", "details", "timestamp"}
    /\ r.success = FALSE

RegisteredTools ==
    {"analizar_archivo", "crear_archivo", "leer_documento", "analizar_datos",
     "tabla_dinamica_avanzada", "crear_visualizacion", "buscar_repositorios_github",
     "extraer_contenido_web", "descargar_archivo_web", "convertir_formato_datos"}

Mentions(message, part) == \E i \in 1..Len(message) : message[i] = part

\* C1: every invocation of a registered tool returns exactly one envelope, of
\* the Success shape or of the Failure shape and never of both, and no
\* exception raised in the handler gets past the tool boundary.
C1_OneEnvelope ==
    ~Idle =>
        /\ call.tool \in RegisteredTools
        /\ escaped = NoExc
        /\ SuccessShape(response) \/ FailureShape(response)
        /\ ~(SuccessShape(response) /\ FailureShape(response))

\* a library failure in the middle of a handler came back as a Failure envelope
C1_Witness ==
    /\ call.tool = "tabla_dinamica_avanzada"
    /\ "pivot_table" \in reached
    /\ FailureShape(response)
    /\ response.error = <<"pivot_table">>

\* C2: descargar_archivo_web run alone.  Destination present and sobrescribir
\* unset: a Failure envelope naming the conflict, no HTTP request, the file
\* system as it was.  Destination present, sobrescribir set and a 2xx answer:
\* the destination holds the response body and the Success envelope reports
\* the length of that new content.
C2_DownloadOverwrite ==
    call.tool = "descargar_archivo_web" =>
        LET a == call.args
            dest == a.ruta_destino
        IN  /\ (prevFs[dest].exists /\ ~a.sobrescribir) =>
                    /\ FailureShape(response)
                    /\ Mentions(response.error, " ya existe. Use sobrescribir=True para reemplazarlo")
                    /\ requests = <<>>
                    /\ fs = prevFs
            /\ (/\ prevFs[dest].exists
                /\ a.sobrescribir
                /\ a.upstream.kind = "response"
                /\ a.upstream.status \in 200..299) =>
                    /\ SuccessShape(response)
                    /\ fs[dest] = File(a.upstream.body.content)
                    /\ response.data.tamano_bytes = Len(fs[dest].text)
                    /\ Len(requests) = 1

\* an existing destination was replaced by a body of another length
C2_Witness ==
    /\ call.tool = "descargar_archivo_web"
    /\ prevFs[call.args.ruta_destino].exists
    /\ call.args.sobrescribir
    /\ SuccessShape(response)
    /\ fs[call.args.ruta_destino] # prevFs[call.args.ruta_destino]
    /\ response.data.tamano_bytes = 1
    /\ Len(prevFs[call.args.ruta_destino].text) = 2

AllowedAggregations == {"mean", "sum", "min", "max", "count", "std", "var", "median"}

\* the function names of an invocation, however they were given
GivenAggregations(a) == IF "str" \in DOMAIN a.aggfunc THEN {a.aggfunc.str} ELSE Range(a.aggfunc.list)

\* C3: tabla_dinamica_avanzada with a function name outside the allow-list,
\* given singly or anywhere in a list, returns a Failure envelope and never
\* reaches pivot_table; when the dataset is readable and the columns exist,
\* the failure is the one that names the invalid functions.
C3_InvalidAggregation ==
    (/\ call.tool = "tabla_dinamica_avanzada"
     /\ GivenAggregations(call.args) \ AllowedAggregations # {}) =>
        /\ FailureShape(response)
        /\ "pivot_table" \notin reached
        /\ (/\ prevFs[call.args.ruta_archivo].exists
            /\ Lower(call.args.ruta_archivo.suffix) \in DataSuffixes
            /\ call.args.parsed.ok
            /\ Range(AsList(call.args.index_cols)) \cup Range(AsList(call.args.columns_cols))
                   \cup {call.args.values_col} \subseteq Range(call.args.parsed.df.cols)) =>
                /\ response.error[1] = "Funciones no válidas: "
                /\ Range(response.error[2]) = GivenAggregations(call.args) \ AllowedAggregations

\* an invalid name in second place of a list, on a readable dataset, was refused
C3_Witness ==
    /\ call.tool = "tabla_dinamica_avanzada"
    /\ call.args.aggfunc = List(<<"sum", "avg">>)
    /\ call.args.pivotOk
    /\ FailureShape(response)
    /\ response.error[1] = "Funciones no válidas: "
    /\ response.error[2] = <<"avg">>

AllowedChartKinds == {"bar", "line", "scatter", "pie", "histogram", "box"}

\* C4: crear_visualizacion with a chart kind outside the allow-list returns a
\* Failure envelope and leaves the file system as it was: no .html file is
\* created or modified.
C4_InvalidChartKind ==
    (/\ call.tool = "crear_visualizacion"
     /\ call.args.tipo_grafico \notin AllowedChartKinds) =>
        /\ FailureShape(response)
        /\ "write_html" \notin reached
        /\ fs = prevFs

\* an unsupported kind got as far as _create_plotly_figure and was refused there
C4_Witness ==
    /\ call.tool = "crear_visualizacion"
    /\ call.args.tipo_grafico = "area"
    /\ call.args.plotOk
    /\ "figure" \in reached
    /\ FailureShape(response)
    /\ response.error[2] = "area"
    /\ ~fs[with_suffix(call.args.ruta_archivo, ".html")].exists

\* the input path of the handlers that take one
InputPath(c) ==
    IF c.tool = "analizar_archivo" THEN c.args.archivo
    ELSE IF c.tool \in {"leer_documento"} THEN c.args.ruta
    ELSE IF c.tool = "convertir_formato_datos" THEN c.args.archivo_entrada
    ELSE c.args.ruta_archivo

InputPathTools ==
    {"analizar_archivo", "leer_documento", "analizar_datos", "tabla_dinamica_avanzada",
     "crear_visualizacion", "convertir_formato_datos"}

\* C5: a handler that takes an input path, invoked with a path that does not
\* exist, returns a Failure envelope whose error contains the path, whatever
\* its other arguments, and raises nothing.
C5_MissingInputPath ==
    (call.tool \in InputPathTools /\ ~prevFs[InputPath(call)].exists) =>
        /\ FailureShape(response)
        /\ Mentions(response.error, PathStr(InputPath(call)))
        /\ escaped = NoExc
        /\ fs = prevFs

\* a conversion of a missing file to an unsupported format reported the path
C5_Witness ==
    /\ call.tool = "convertir_formato_datos"
    /\ call.args.formato_salida = "xml"
    /\ ~prevFs[call.args.archivo_entrada].exists
    /\ FailureShape(response)
    /\ response.error = <<"El archivo ", "data.json", " no existe">>

AllUnits == <<"B", "KB", "MB", "GB", "TB">>

RECURSIVE Pow(_, _)
Pow(b, e) == IF e = 0 THEN 1 ELSE b * Pow(b, e - 1)

\* the number of unit steps a byte count takes: the weight of its highest
\* non-zero digit, four at most
UnitSteps(ds) ==
    LET weights == {Len(ds) - i : i \in {j \in 1..Len(ds) : ds[j] # 0}}
        highest == IF weights = {} THEN 0 ELSE CHOOSE w \in weights : \A v \in weights : v =< w
    IN  Min(highest, Len(AllUnits) - 1)

\* byte counts below 10^8: twenty times the count is still a machine integer
FitsInteger(ds) ==
    \A i \in 1..Len(ds) : ds[i] # 0 => (Len(ds) - i < 2 \/ (Len(ds) - i = 2 /\ ds[i] < 95))

Abs(x) == IF x < 0 THEN -x ELSE x

\* C6: _format_file_size divides the byte count by 1024 once per unit step
\* along B, KB, MB, GB, TB, the unit being the first at which the value is
\* below 1024 (TB when none is), and shows the value to one decimal place:
\* the nearest tenth, a tie going to the even tenth.  0 gives "0.0 B", 1536
\* gives "1.5 KB" and 1073741824 gives "1.0 GB".
C6_FormatFileSize ==
    sizeOut # NoSize =>
        LET k == UnitSteps(sizeIn)
            n == IntVal(sizeIn)
            d == Pow(Base, k)
        IN  /\ sizeOut.unit = AllUnits[k + 1]
            /\ FitsInteger(sizeIn) =>
                    /\ 2 * Abs(sizeOut.tenths * d - 10 * n) =< d
                    /\ 2 * Abs(sizeOut.tenths * d - 10 * n) = d => sizeOut.tenths % 2 = 0
            /\ sizeIn = <<0>> => sizeOut = [tenths |-> 0, unit |-> "B"]
            /\ sizeIn = <<1, 512>> => sizeOut = [tenths |-> 15, unit |-> "KB"]
            /\ sizeIn = <<1, 0, 0, 0>> => sizeOut = [tenths |-> 10, unit |-> "GB"]
            /\ sizeIn = <<1, 256, 0, 0, 0>> => sizeOut = [tenths |-> 12, unit |-> "TB"]
            /\ sizeIn = <<1023, 1023, 1023>> => sizeOut = [tenths |-> 10240, unit |-> "MB"]

\* 1280 bytes, the tie at 1.25 KB, went to the even tenth: "1.2 KB"
C6_Witness ==
    /\ sizeIn = <<1, 256>>
    /\ sizeOut = [tenths |-> 12, unit |-> "KB"]

RECURSIVE SumLengths(_)
SumLengths(texts) == IF texts = <<>> THEN 0 ELSE Len(Head(texts)) + SumLengths(Tail(texts))

\* the length of the text extraer_contenido_web extracted, before any cut
ExtractedLength(a) ==
    IF "str" \in DOMAIN a.selector_css /\ a.selector_css.str # ""
    THEN SumLengths(a.upstream.body.elements) + Max(Len(a.upstream.body.elements) - 1, 0)
    ELSE Len(a.upstream.body.text)

\* the length of the text leer_documento read, before any cut
DocumentLength(a) ==
    IF Lower(a.ruta.suffix) = ".pdf" THEN Len(a.pdf.text) ELSE Len(prevFs[a.ruta].text)

TruncationReport == {"longitud_total", "longitud_retornada", "fue_truncado"}

\* C7 as stated: every tool that truncates text (leer_documento,
\* extraer_contenido_web) reports the original length, the returned length
\* and a boolean truncation flag in its Success data.
C7_Original ==
    (call.tool \in {"leer_documento", "extraer_contenido_web"} /\ SuccessShape(response)) =>
        /\ TruncationReport \subseteq DOMAIN response.data
        /\ response.data.fue_truncado \in BOOLEAN

\* C7 amended: leer_documento reports the original length, the returned
\* length and a boolean flag; extraer_contenido_web cuts its text at 10,000
\* characters and reports the original length only, with neither a returned
\* length nor a flag.
C7_TruncationReport ==
    /\ (call.tool = "leer_documento" /\ SuccessShape(response)) =>
            /\ TruncationReport \subseteq DOMAIN response.data
            /\ response.data.longitud_total = DocumentLength(call.args)
            /\ response.data.longitud_retornada = Len(response.data.contenido)
            /\ response.data.fue_truncado \in BOOLEAN
    /\ (call.tool = "extraer_contenido_web" /\ SuccessShape(response)) =>
            /\ DOMAIN response.data =
                   {"url", "contenido", "longitud_total", "titulo", "selector_usado"}
            /\ response.data.longitud_total = ExtractedLength(call.args)
            /\ Len(response.data.contenido) = Min(ExtractedLength(call.args), WebLimit)

\* a document of two characters was cut to one, and a page of 10,001 to 10,000
C7_Witness ==
    \/ /\ call.tool = "leer_documento"
       /\ SuccessShape(response)
       /\ response.data.longitud_total = 2
       /\ response.data.longitud_retornada = 1
       /\ response.data.fue_truncado
    \/ /\ call.tool = "extraer_contenido_web"
       /\ SuccessShape(response)
       /\ response.data.longitud_total = WebLimit + 1
       /\ Len(response.data.contenido) = WebLimit

RECURSIVE SumOver(_, _)
SumOver(counts, keys) ==
    IF keys = {} THEN 0
    ELSE LET k == CHOOSE x \in keys : TRUE
         IN  counts[k] + SumOver(counts, keys \ {k})

\* the null cells of a frame, counted cell by cell
TotalNullCells(df) ==
    Cardinality({ij \in (1..Len(df.rows)) \X (1..Len(df.cols)) : df.rows[ij[1]][ij[2]] = NullCell})

\* C8: analizar_datos on a readable dataset of N rows and C columns returns
\* Success with filas = N, columnas = C and one missing-value count per
\* column, and the counts add up to the number of null cells of the dataset.
C8_AnalyzeCounts ==
    (/\ call.tool = "analizar_datos"
     /\ prevFs[call.args.ruta_archivo].exists
     /\ Lower(call.args.ruta_archivo.suffix) \in {".csv", ".xlsx", ".xls", ".json"}
     /\ call.args.parsed.ok) =>
        LET df == call.args.parsed.df
            d == response.data
        IN  /\ SuccessShape(response)
            /\ d.info_basica.filas = Len(df.rows)
            /\ d.info_basica.columnas = Len(df.cols)
            /\ DOMAIN d.valores_faltantes = Range(df.cols)
            /\ SumOver(d.valores_faltantes, DOMAIN d.valores_faltantes) = TotalNullCells(df)

\* two rows and two columns, one null in x and two in y
C8_Witness ==
    /\ call.tool = "analizar_datos"
    /\ SuccessShape(response)
    /\ response.data.info_basica.filas = 2
    /\ response.data.info_basica.columnas = 2
    /\ response.data.valores_faltantes["x"] = 1
    /\ response.data.valores_faltantes["y"] = 2

\* the names that carry the temporary-file prefix
TempNames == {<<"t", "e", "m", "p", "_">>, <<"t", "e", "m", "p", "_", "a">>,
              <<"t", "e", "m", "p", "_", "b">>}

Attempted == {shown[i].archivo : i \in 1..Len(shown)}

\* C9: on the cleanup action a deletion is attempted, once, for every file of
\* the working directory whose name starts with temp_, each attempt is
\* reported as a success or a failure, a failed deletion does not stop the
\* attempts on the files after it, and no file without the prefix is deleted.
C9_Cleanup ==
    uiLast = "cleanup" =>
        /\ Attempted = {n \in TempNames : cwdBefore[n].exists}
        /\ Len(shown) = Cardinality(Attempted)
        /\ \A i \in 1..Len(shown) :
              /\ shown[i].kind \in {"success", "warning"}
              /\ shown[i].kind = "success" <=> cwdBefore[shown[i].archivo].removable
              /\ shown[i].kind = "success" => ~cwd[shown[i].archivo].exists
              /\ shown[i].kind = "warning" => cwd[shown[i].archivo] = cwdBefore[shown[i].archivo]
        /\ \A n \in Names \ TempNames : cwd[n] = cwdBefore[n]

\* a deletion failed and the file after it was still deleted, next to files
\* without the prefix that stayed
C9_Witness ==
    /\ uiLast = "cleanup"
    /\ Len(shown) = 3
    /\ shown[1].kind = "warning"
    /\ shown[2].kind = "success"
    /\ shown[3].kind = "warning"
    /\ \A n \in Names \ TempNames : cwd[n].exists

\* C10: buscar_repositorios_github sends per_page = the requested page size
\* clamped to the API maximum, so never more than 100, and issues at most one
\* upstream request whatever the upstream answers.
C10_PerPageClamped ==
    call.tool = "buscar_repositorios_github" =>
        /\ Len(requests) =< 1
        /\ \A i \in 1..Len(requests) :
              /\ requests[i].params.per_page =< 100
              /\ requests[i].params.per_page =
                     (IF call.args.per_page > 100 THEN 100 ELSE call.args.per_page)

\* a page size of 1000 went out as 100 and the timeout was not retried
C10_Witness ==
    /\ call.tool = "buscar_repositorios_github"
    /\ call.args.per_page = 1000
    /\ call.args.upstream.kind = "timeout"
    /\ Len(requests) = 1
    /\ requests[1].params.per_page = 100
    /\ FailureShape(response)

\* the text leer_documento read, before any cut
DocumentText(a) ==
    IF Lower(a.ruta.suffix) = ".pdf" THEN a.pdf.text ELSE prevFs[a.ruta].text

IsPrefix(p, t) == Len(p) =< Len(t) /\ p = SubSeq(t, 1, Len(p))

\* C11: leer_documento on a supported, existing file of length L, with any
\* integer limit K: the returned content is a prefix of the original no longer
\* than K, longitud_total = L, longitud_retornada is the length of the returned
\* content, and fue_truncado holds exactly when the returned content is
\* shorter than the original.
C11_ReadDocument ==
    (call.tool = "leer_documento" /\ SuccessShape(response)) =>
        LET original == DocumentText(call.args)
            d == response.data
        IN  /\ IsPrefix(d.contenido, original)
            /\ Len(d.contenido) =< call.args.limite_caracteres
            /\ d.longitud_total = Len(original)
            /\ d.longitud_retornada = Len(d.contenido)
            /\ d.fue_truncado <=> Len(d.contenido) < Len(original)

(***************************************************************************)
(* SpecConc: descargar_archivo_web invocations running concurrently on one *)
(* event loop (lines 388-420).  A coroutine runs without interruption from *)
(* one await to the next, so an invocation takes three steps:              *)
(*   DlBegin   from the call to `await client.get(url)`: the existence     *)
(*             test of line 395 and the request going out;                 *)
(*   DlResume  from the response to the end of the `async with` body:      *)
(*             raise_for_status, mkdir, write_bytes, the data;             *)
(*   DlClose   the client's __aexit__ has been awaited and the envelope is *)
(*             returned.                                                   *)
(***************************************************************************)
MaxCalls == 2           \* download invocations in flight at once

Calls == 1..MaxCalls
ConcPaths == {Path("data", ".csv"), Path("notes", ".txt")}
ConcUrl == "http://h/f"
ConcUpstreams ==
    {Timeout} \cup {HttpResponse(200, d) : d \in {b \in Downloads : b.content # <<>>}}

ConflictMessage(path) ==
    <<"El archivo ", PathStr(path), " ya existe. Use sobrescribir=True para reemplazarlo">>

Ready(ruta_destino, sobrescribir) ==
    [pc |-> "ready", ruta_destino |-> ruta_destino, sobrescribir |-> sobrescribir,
     sawExists |-> FALSE, requests |-> <<>>, pending |-> NoResponse, response |-> NoResponse]

\* lines 392-399: the test, then the request, then the coroutine is suspended
DlBegin(c) ==
    /\ dl[c].pc = "ready"
    /\ dl' = [dl EXCEPT ![c] =
                IF RefusesOverwrite(fs, dl[c].ruta_destino, dl[c].sobrescribir)
                THEN [@ EXCEPT !.pc = "done",
                               !.sawExists = Exists(fs, dl[c].ruta_destino),
                               !.response = error(ConflictMessage(dl[c].ruta_destino))]
                ELSE [@ EXCEPT !.pc = "awaiting",
                               !.sawExists = Exists(fs, dl[c].ruta_destino),
                               !.requests = <<Get(ConcUrl, <<>>, DownloadTimeout)>>]]
    /\ UNCHANGED <<fs, dlLog, prevFs, call, response, escaped, requests, reached,
                   fmtVars, uiVars>>

\* lines 399-416: the response is in; on success the body is written
DlResume(c) ==
    /\ dl[c].pc = "awaiting"
    /\ \E upstream \in ConcUpstreams :
           LET failure == HttpFailure(upstream)
               dest == dl[c].ruta_destino
           IN  IF failure.exc # NoExc
               THEN /\ dl' = [dl EXCEPT ![c].pc = "closing",
                                        ![c].pending = error(failure.msg)]
                    /\ UNCHANGED <<fs, dlLog>>
               ELSE /\ fs' = WriteFile(fs, dest, upstream.body.content)
                    /\ dlLog' = Append(dlLog, [call |-> c, dest |-> dest,
                                               content |-> upstream.body.content,
                                               existed |-> Exists(fs, dest)])
                    /\ dl' = [dl EXCEPT
                                ![c].pc = "closing",
                                ![c].pending =
                                    success([url |-> ConcUrl,
                                             archivo_destino |-> PathStr(dest),
                                             tamano_bytes |-> Len(upstream.body.content),
                                             tamano_legible |->
                                                 _format_file_size(SmallSize(Len(upstream.body.content))),
                                             tipo_contenido |->
                                                 GetOr(upstream.body, "content_type", "desconocido")],
                                            <<"Archivo descargado exitosamente">>)]
    /\ UNCHANGED <<prevFs, call, response, escaped, requests, reached, fmtVars, uiVars>>

\* the `async with` block is left and the envelope returned (lines 416, 420)
DlClose(c) ==
    /\ dl[c].pc = "closing"
    /\ dl' = [dl EXCEPT ![c].pc = "done", ![c].response = dl[c].pending,
                        ![c].pending = NoResponse]
    /\ UNCHANGED <<fs, dlLog, prevFs, call, response, escaped, requests, reached,
                   fmtVars, uiVars>>

InitConc ==
    /\ fs \in {[EmptyFs EXCEPT ![Path("data", ".csv")] = csv, ![Path("notes", ".txt")] = txt] :
                  csv \in {Absent, File(<<"a", "b">>)}, txt \in {Absent, File(<<"a">>)}}
    /\ prevFs = fs
    /\ call = NoCall
    /\ response = NoResponse
    /\ escaped = NoExc
    /\ requests = <<>>
    /\ reached = {}
    /\ sizeIn = <<0>>
    /\ sizeOut = NoSize
    /\ cwd = <<>>
    /\ cwdBefore = cwd
    /\ shown = <<>>
    /\ uiLast = "start"
    /\ dl \in [Calls -> {Ready(p, o) : p \in ConcPaths, o \in BOOLEAN}]
    /\ dlLog = <<>>

NextConc == \E c \in Calls : DlBegin(c) \/ DlResume(c) \/ DlClose(c)

SpecConc == InitConc /\ [][NextConc]_vars

\* the last write the log holds for a destination
LastWrite(dest) ==
    LET idx == {i \in 1..Len(dlLog) : dlLog[i].dest = dest}
    IN  dlLog[CHOOSE i \in idx : \A j \in idx : j =< i]

Wrote(c) == \E i \in 1..Len(dlLog) : dlLog[i].call = c

\* C12 as stated: under every interleaving an invocation with sobrescribir
\* unset never replaces a destination that exists when it writes; of two
\* concurrent such calls aimed at one initially absent destination at most one
\* returns Success.
C12_Original ==
    /\ \A i \in 1..Len(dlLog) : ~dl[dlLog[i].call].sobrescribir => ~dlLog[i].existed
    /\ \A c, e \in Calls :
          (/\ c # e
           /\ dl[c].ruta_destino = dl[e].ruta_destino
           /\ ~prevFs[dl[c].ruta_destino].exists
           /\ ~dl[c].sobrescribir /\ ~dl[e].sobrescribir)
          => ~(SuccessShape(dl[c].response) /\ SuccessShape(dl[e].response))

\* C12 amended: the existence test is made once, before the request.  An
\* invocation with sobrescribir unset that finds its destination present at
\* that point returns a Failure envelope without a request or a write; one
\* that finds it absent writes when its response arrives, whatever the
\* destination holds by then.  A destination that was written holds the body
\* written last, and every invocation that returned Success wrote.
C12_CheckThenWrite ==
    /\ \A c \in Calls :
          /\ (dl[c].pc # "ready" /\ dl[c].sawExists /\ ~dl[c].sobrescribir) =>
                 /\ dl[c].pc = "done"
                 /\ FailureShape(dl[c].response)
                 /\ dl[c].requests = <<>>
                 /\ ~Wrote(c)
          /\ (Wrote(c) /\ ~dl[c].sobrescribir) => ~dl[c].sawExists
          /\ Len(dl[c].requests) =< 1
          /\ dl[c].pc = "done" =>
                 /\ SuccessShape(dl[c].response) \/ FailureShape(dl[c].response)
                 /\ SuccessShape(dl[c].response) <=> Wrote(c)
    /\ \A p \in ConcPaths :
          IF \E i \in 1..Len(dlLog) : dlLog[i].dest = p
          THEN fs[p] = File(LastWrite(p).content)
          ELSE fs[p] = prevFs[p]

\* two calls with sobrescribir unset, one initially absent destination: both
\* returned Success and the file holds the body of the second writer
C12_Witness ==
    /\ dl[1].ruta_destino = dl[2].ruta_destino
    /\ ~dl[1].sobrescribir /\ ~dl[2].sobrescribir
    /\ ~prevFs[dl[1].ruta_destino].exists
    /\ dl[1].pc = "done" /\ dl[2].pc = "done"
    /\ SuccessShape(dl[1].response) /\ SuccessShape(dl[2].response)
    /\ Len(dlLog) = 2
    /\ dlLog[1].call = 1 /\ dlLog[2].call = 2
    /\ dlLog[2].existed
    /\ dlLog[1].content # dlLog[2].content
    /\ fs[dl[1].ruta_destino] = File(dlLog[2].content)

\* the path convertir_formato_datos wrote to
OutputPath(a) == with_suffix(a.archivo_entrada, "." \o a.formato_salida)

\* C13: a conversion that succeeded, to a target format among json, csv, xlsx
\* and parquet, wrote to a path other than its input path and left the content
\* of its input file as it was.
C13_ConvertKeepsInput ==
    (/\ call.tool = "convertir_formato_datos"
     /\ SuccessShape(response)
     /\ call.args.formato_salida \in Range(formatos_soportados))
    => /\ OutputPath(call.args) # call.args.archivo_entrada
       /\ fs[call.args.archivo_entrada] = prevFs[call.args.archivo_entrada]

====
